---- MODULE Spec2Model ----
(***************************************************************************)
(* French-Dutch vocabulary quiz: the corpus loader and answer matcher of   *)
(* parser.py (VocabularyParser) and the session driver of quiz.py          *)
(* (QuizGame).  Strings are sequences of one-character strings.            *)
(***************************************************************************)
EXTENDS Integers, Sequences, FiniteSets, TLC

VARIABLES
    file,             \* the vocabulary file: [status, content]
    vocabulary_pairs, \* QuizGame.vocabulary_pairs / VocabularyParser.vocabulary_pairs
    pc,               \* position of the single thread of control
    correct_answer,   \* ask_question local: the canonical answer
    direction,        \* ask_question local: "french_to_dutch" | "dutch_to_french"
    user_answer,      \* ask_question local: the trimmed input line
    is_correct,       \* ask_question local: the matcher's verdict
    score,            \* QuizGame.score
    total_questions,  \* QuizGame.total_questions
    session_stats,    \* QuizGame.session_stats
    entry,            \* the counters as they were when ask_question was entered
    posed,            \* has a question been printed
    last_prompt,      \* total_questions when "Continue practicing?" was last shown
    final_results,    \* number of executions of display_final_results
    pending,          \* an exception is propagating out of run()
    exit_status       \* process exit status, -1 while the process runs

vars == <<file, vocabulary_pairs, pc, correct_answer, direction, user_answer,
          is_correct, score, total_questions, session_stats, entry, posed,
          last_prompt, final_results, pending, exit_status>>

(***************************************************************************)
(* Bounds                                                                  *)
(***************************************************************************)
MaxLen == 3        \* longest enumerated canonical answer
MaxFile == 7       \* longest enumerated vocabulary file, in characters
MaxQuestions == 6  \* graded questions after which no further question is posed

(***************************************************************************)
(* Characters and the string primitives of Python used by the code        *)
(***************************************************************************)
Whitespace == {" ", "\t", "\n", "\r"}

\* the character class of re.sub(r'[.,;:!?()"\'-]', '', answer)
Punctuation == {".", ",", ";", ":", "!", "?", "(", ")", "\"", "'", "-"}

UpperCase == <<"A","B","C","D","E","F","G","H","I","J","K","L","M",
               "N","O","P","Q","R","S","T","U","V","W","X","Y","Z">>
LowerCase == <<"a","b","c","d","e","f","g","h","i","j","k","l","m",
               "n","o","p","q","r","s","t","u","v","w","x","y","z">>

Range(s) == {s[i] : i \in 1..Len(s)}

Min(S) == CHOOSE x \in S : \A y \in S : x <= y
Max(S) == CHOOSE x \in S : \A y \in S : x >= y

LowerChar(c) ==
    IF \E i \in 1..Len(UpperCase) : UpperCase[i] = c
    THEN LowerCase[CHOOSE i \in 1..Len(UpperCase) : UpperCase[i] = c]
    ELSE c

\* str.lower()
lower(s) == [i \in 1..Len(s) |-> LowerChar(s[i])]

\* str.strip()
strip(s) ==
    LET keep == {i \in 1..Len(s) : s[i] \notin Whitespace}
    IN  IF keep = {} THEN <<>> ELSE SubSeq(s, Min(keep), Max(keep))

\* a substitution that puts a space where the punctuation stood
RemovePunctuationWithSpace(s) ==
    [i \in 1..Len(s) |-> IF s[i] \in Punctuation THEN " " ELSE s[i]]

\* re.sub(r'[.,;:!?()"\'-]', '', s)
RemovePunctuation(s) == SelectSeq(s, LAMBDA c : c \notin Punctuation)

\* re.sub(r'\s+', ' ', s)
RECURSIVE CollapseWhitespace(_)
CollapseWhitespace(s) ==
    IF s = <<>> THEN <<>>
    ELSE IF Head(s) \in Whitespace
         THEN IF Len(s) > 1 /\ s[2] \in Whitespace
              THEN CollapseWhitespace(Tail(s))
              ELSE <<" ">> \o CollapseWhitespace(Tail(s))
         ELSE <<Head(s)>> \o CollapseWhitespace(Tail(s))

\* sep in s
Contains(s, sep) == \E i \in 1..Len(s) : s[i] = sep

\* s.index(sep)
IndexOf(s, sep) == Min({i \in 1..Len(s) : s[i] = sep})

\* s.split(sep)
RECURSIVE split(_, _)
split(s, sep) ==
    IF ~Contains(s, sep) THEN <<s>>
    ELSE LET i == IndexOf(s, sep)
         IN  <<SubSeq(s, 1, i - 1)>> \o split(SubSeq(s, i + 1, Len(s)), sep)

\* s.rsplit(sep, 1): a split at the last separator
rsplit1(s, sep) ==
    IF ~Contains(s, sep) THEN <<s>>
    ELSE LET i == Max({j \in 1..Len(s) : s[j] = sep})
         IN  <<SubSeq(s, 1, i - 1), SubSeq(s, i + 1, Len(s))>>

\* s.split(sep, 1)
split1(s, sep) ==
    IF ~Contains(s, sep) THEN <<s>>
    ELSE LET i == IndexOf(s, sep)
         IN  <<SubSeq(s, 1, i - 1), SubSeq(s, i + 1, Len(s))>>

RECURSIVE Flatten(_)
Flatten(ss) == IF ss = <<>> THEN <<>> ELSE Head(ss) \o Flatten(Tail(ss))

(***************************************************************************)
(* Answer matcher (parser.py)                                              *)
(***************************************************************************)
normalize_answer(answer) ==
    CollapseWhitespace(RemovePunctuation(strip(lower(answer))))

possible_answers(correct) ==
    LET parts == split(correct, ",")
    IN  [i \in 1..Len(parts) |-> normalize_answer(strip(parts[i]))]

\* a candidate list whose '/' alternatives are not trimmed
all_possible_untrimmed(correct) ==
    LET possible == possible_answers(correct)
    IN  Flatten([i \in 1..Len(possible) |-> split(possible[i], "/")])

all_possible(correct) ==
    LET possible == possible_answers(correct)
    IN  Flatten([i \in 1..Len(possible) |->
            LET alts == split(possible[i], "/")
            IN  [j \in 1..Len(alts) |-> normalize_answer(strip(alts[j]))]])

check_answer(user, correct) ==
    normalize_answer(user) \in Range(all_possible(correct))

(***************************************************************************)
(* Corpus loader (parser.py)                                               *)
(***************************************************************************)
\* file.readlines(): the lines of the content, each with its terminator
RECURSIVE readlines(_)
readlines(content) ==
    IF content = <<>> THEN <<>>
    ELSE IF ~Contains(content, "\n") THEN <<content>>
    ELSE LET i == IndexOf(content, "\n")
         IN  <<SubSeq(content, 1, i)>> \o
             readlines(SubSeq(content, i + 1, Len(content)))

\* one iteration of the loop over the lines: the pairs the line appends
parse_line(raw) ==
    LET line == strip(raw)
    IN  IF line = <<>> \/ Head(line) = "#" THEN <<>>
        ELSE IF Contains(line, "|")
        THEN LET parts == split1(line, "|")
             IN  IF Len(parts) = 2
                 THEN LET french == strip(parts[1])
                          dutch  == strip(parts[2])
                      IN  IF french # <<>> /\ dutch # <<>>
                          THEN << <<french, dutch>> >>
                          ELSE <<>>
                 ELSE <<>>
        ELSE <<>>

RECURSIVE parse_lines(_)
parse_lines(lines) ==
    IF lines = <<>> THEN <<>>
    ELSE parse_line(Head(lines)) \o parse_lines(Tail(lines))

\* the result and the stored pairs of load_vocabulary
load_vocabulary(f) ==
    IF f.status # "ok" THEN [ok |-> FALSE, pairs |-> <<>>]
    ELSE LET pairs == parse_lines(readlines(f.content))
         IN  [ok |-> Len(pairs) > 0, pairs |-> pairs]

(***************************************************************************)
(* Session driver (quiz.py)                                                *)
(***************************************************************************)
Directions == {"french_to_dutch", "dutch_to_french"}

QuitCommands == {<<"q","u","i","t">>, <<"e","x","i","t">>, <<"q">>}
StatsCommands == {<<"s","t","a","t","s">>,
                  <<"s","t","a","t","i","s","t","i","c","s">>, <<"s">>}
StopResponses == {<<"n">>, <<"n","o">>, <<"q","u","i","t">>, <<"e","x","i","t">>}

\* "ask after every 5 questions"
CadenceN == 5

ZeroStats == [correct |-> 0, incorrect |-> 0,
              french_to_dutch |-> [correct |-> 0, total |-> 0],
              dutch_to_french |-> [correct |-> 0, total |-> 0]]

Counters == [total_questions |-> total_questions, score |-> score,
             session_stats |-> session_stats]

\* the vocabulary files of the modelled sessions
CorpusText ==
    <<"#"," ","A","\n",
      "u","n"," ","|"," ","e","e","n","\n",
      "o","n","e"," ","c","o","l","u","m","n","\n",
      "o","u","i","|","j","a",","," ","j","a","w","e","l","\n">>

CommentOnlyText == <<"#"," ","A","\n","\n","|","x","\n">>

SessionFiles ==
    { [status |-> "ok", content |-> CorpusText],
      [status |-> "ok", content |-> CommentOnlyText],
      [status |-> "ok", content |-> <<>>],
      [status |-> "missing", content |-> <<>>],
      [status |-> "undecodable", content |-> <<>>] }

\* the lines a user types at "Your answer: "
AnswerLines ==
    { <<"e","e","n">>, <<" ","U","N"," ">>, <<"j","a","w","e","l">>,
      <<>>, <<" "," ">>,
      <<"q">>, <<"E","x","i","t">>, <<"q","u","i","t">>,
      <<"s">>, <<" ","S","T","A","T","S">>,
      <<"s","t","a","t","i","s","t","i","c","s">> }

\* the lines a user types at "Continue practicing? (y/n/stats): "
ContinueLines ==
    { <<"y">>, <<>>, <<"n">>, <<"N","o"," ">>, <<"q","u","i","t">>,
      <<"e","x","i","t">>, <<"s","t","a","t","s">> }

\* exit status of the interpreter when an exception leaves main()
ExitCode(exc) ==
    CASE exc = "none" -> 0
      [] exc = "KeyboardInterrupt" -> 130
      [] OTHER -> 1

Init ==
    /\ file \in SessionFiles
    /\ vocabulary_pairs = <<>>
    /\ pc = "initialize"
    /\ correct_answer = <<>>
    /\ direction = "french_to_dutch"
    /\ user_answer = <<>>
    /\ is_correct = FALSE
    /\ score = 0
    /\ total_questions = 0
    /\ session_stats = ZeroStats
    /\ entry = [total_questions |-> 0, score |-> 0, session_stats |-> ZeroStats]
    /\ posed = FALSE
    /\ last_prompt = -1
    /\ final_results = 0
    /\ pending = "none"
    /\ exit_status = -1

\* run(): if not self.initialize(): return
Initialize ==
    /\ pc = "initialize"
    /\ LET r == load_vocabulary(file)
       IN  /\ vocabulary_pairs' = r.pairs
           /\ IF r.ok /\ r.pairs # <<>>
              THEN pc' = "display_welcome" /\ exit_status' = exit_status
              ELSE pc' = "exit" /\ exit_status' = ExitCode("none")
    /\ UNCHANGED <<file, correct_answer, direction, user_answer, is_correct,
                   score, total_questions, session_stats, entry, posed,
                   last_prompt, final_results, pending>>

DisplayWelcome ==
    /\ pc = "display_welcome"
    /\ pc' = "ask_question"
    /\ UNCHANGED <<file, vocabulary_pairs, correct_answer, direction,
                   user_answer, is_correct, score, total_questions,
                   session_stats, entry, posed, last_prompt, final_results,
                   pending, exit_status>>

\* ask_question: generate_question and the two prints of the question
GenerateQuestion ==
    /\ pc = "ask_question"
    /\ total_questions < MaxQuestions
    /\ \E i \in 1..Len(vocabulary_pairs), d \in Directions :
          /\ direction' = d
          /\ correct_answer' = IF d = "french_to_dutch"
                               THEN vocabulary_pairs[i][2]
                               ELSE vocabulary_pairs[i][1]
    /\ user_answer' = <<>>
    /\ is_correct' = FALSE
    /\ entry' = Counters
    /\ posed' = TRUE
    /\ pc' = "input"
    /\ UNCHANGED <<file, vocabulary_pairs, score, total_questions,
                   session_stats, last_prompt, final_results, pending,
                   exit_status>>

IsQuit(answer) == lower(answer) \in QuitCommands
IsStats(answer) == lower(answer) \in StatsCommands

\* where ask_question goes with the trimmed input
Dispatch(answer) ==
    IF IsQuit(answer) THEN "finally"
    ELSE IF IsStats(answer) THEN "cadence"
    ELSE IF answer = <<>> THEN "cadence"
    ELSE "count_total"

\* user_answer = input("Your answer: ").strip() and the special commands
ReadAnswer ==
    /\ pc = "input"
    /\ \E line \in AnswerLines :
          /\ user_answer' = strip(line)
          /\ pc' = Dispatch(strip(line))
    /\ UNCHANGED <<file, vocabulary_pairs, correct_answer, direction,
                   is_correct, score, total_questions, session_stats, entry,
                   posed, last_prompt, final_results, pending, exit_status>>

\* self.total_questions += 1
CountTotal ==
    /\ pc = "count_total"
    /\ total_questions' = total_questions + 1
    /\ pc' = "count_direction"
    /\ UNCHANGED <<file, vocabulary_pairs, correct_answer, direction,
                   user_answer, is_correct, score, session_stats, entry,
                   posed, last_prompt, final_results, pending, exit_status>>

\* self.session_stats[direction]['total'] += 1
CountDirection ==
    /\ pc = "count_direction"
    /\ session_stats' = [session_stats EXCEPT ![direction].total = @ + 1]
    /\ pc' = "check_answer"
    /\ UNCHANGED <<file, vocabulary_pairs, correct_answer, direction,
                   user_answer, is_correct, score, total_questions, entry,
                   posed, last_prompt, final_results, pending, exit_status>>

\* is_correct = self.parser.check_answer(user_answer, correct_answer)
CheckAnswer ==
    /\ pc = "check_answer"
    /\ is_correct' = check_answer(user_answer, correct_answer)
    /\ pc' = IF is_correct' THEN "count_score" ELSE "count_incorrect"
    /\ UNCHANGED <<file, vocabulary_pairs, correct_answer, direction,
                   user_answer, score, total_questions, session_stats, entry,
                   posed, last_prompt, final_results, pending, exit_status>>

\* self.score += 1
CountScore ==
    /\ pc = "count_score"
    /\ score' = score + 1
    /\ pc' = "count_correct"
    /\ UNCHANGED <<file, vocabulary_pairs, correct_answer, direction,
                   user_answer, is_correct, total_questions, session_stats,
                   entry, posed, last_prompt, final_results, pending,
                   exit_status>>

\* self.session_stats['correct'] += 1
CountCorrect ==
    /\ pc = "count_correct"
    /\ session_stats' = [session_stats EXCEPT !.correct = @ + 1]
    /\ pc' = "count_direction_correct"
    /\ UNCHANGED <<file, vocabulary_pairs, correct_answer, direction,
                   user_answer, is_correct, score, total_questions, entry,
                   posed, last_prompt, final_results, pending, exit_status>>

\* self.session_stats[direction]['correct'] += 1
CountDirectionCorrect ==
    /\ pc = "count_direction_correct"
    /\ session_stats' = [session_stats EXCEPT ![direction].correct = @ + 1]
    /\ pc' = "show_score"
    /\ UNCHANGED <<file, vocabulary_pairs, correct_answer, direction,
                   user_answer, is_correct, score, total_questions, entry,
                   posed, last_prompt, final_results, pending, exit_status>>

\* an incorrect answer that is counted as a correct one
CountIncorrectAsCorrect ==
    /\ pc = "count_incorrect"
    /\ session_stats' = [session_stats EXCEPT !.correct = @ + 1]
    /\ pc' = "show_score"
    /\ UNCHANGED <<file, vocabulary_pairs, correct_answer, direction,
                   user_answer, is_correct, score, total_questions, entry,
                   posed, last_prompt, final_results, pending, exit_status>>

\* self.session_stats['incorrect'] += 1
CountIncorrect ==
    /\ pc = "count_incorrect"
    /\ session_stats' = [session_stats EXCEPT !.incorrect = @ + 1]
    /\ pc' = "show_score"
    /\ UNCHANGED <<file, vocabulary_pairs, correct_answer, direction,
                   user_answer, is_correct, score, total_questions, entry,
                   posed, last_prompt, final_results, pending, exit_status>>

\* the running score is printed and ask_question returns True
ShowScore ==
    /\ pc = "show_score"
    /\ total_questions # 0
    /\ pc' = "cadence"
    /\ UNCHANGED <<file, vocabulary_pairs, correct_answer, direction,
                   user_answer, is_correct, score, total_questions,
                   session_stats, entry, posed, last_prompt, final_results,
                   pending, exit_status>>

\* if self.total_questions > 0 and self.total_questions % 5 == 0
CadenceDue == total_questions > 0 /\ total_questions % CadenceN = 0

\* back in run() after ask_question returned True
CadenceCheck ==
    /\ pc = "cadence"
    /\ IF CadenceDue
       THEN pc' = "continue_input" /\ last_prompt' = total_questions
       ELSE pc' = "ask_question" /\ last_prompt' = last_prompt
    /\ correct_answer' = <<>>
    /\ user_answer' = <<>>
    /\ is_correct' = FALSE
    /\ UNCHANGED <<file, vocabulary_pairs, direction, score, total_questions,
                   session_stats, entry, posed, final_results, pending,
                   exit_status>>

\* continue_input = input("Continue practicing? ...").lower().strip()
ContinueInput ==
    /\ pc = "continue_input"
    /\ \E line \in ContinueLines :
          pc' = IF strip(lower(line)) \in StopResponses
                THEN "finally" ELSE "ask_question"
    /\ UNCHANGED <<file, vocabulary_pairs, correct_answer, direction,
                   user_answer, is_correct, score, total_questions,
                   session_stats, entry, posed, last_prompt, final_results,
                   pending, exit_status>>

\* input() raises EOFError when standard input is at its end
EndOfInput ==
    /\ pc \in {"input", "continue_input"}
    /\ pending' = "EOFError"
    /\ pc' = "finally"
    /\ correct_answer' = <<>>
    /\ user_answer' = <<>>
    /\ is_correct' = FALSE
    /\ UNCHANGED <<file, vocabulary_pairs, direction, score, total_questions,
                   session_stats, entry, posed, last_prompt, final_results,
                   exit_status>>

\* the statements of run() inside try:
TryBody == {"ask_question", "input", "count_total", "count_direction",
            "check_answer", "count_score", "count_correct",
            "count_direction_correct", "count_incorrect", "show_score",
            "cadence", "continue_input"}

\* where a KeyboardInterrupt raised at a position of run() is taken
InterruptTarget(at) ==
    IF at \in TryBody THEN "except"
    ELSE IF at = "except" THEN "finally"
    ELSE "exit"

\* a KeyboardInterrupt is raised between two instructions
Interrupt ==
    /\ pc \in TryBody \cup {"initialize", "display_welcome", "except", "finally"}
    /\ pc' = InterruptTarget(pc)
    /\ pending' = IF pc \in TryBody THEN pending ELSE "KeyboardInterrupt"
    /\ exit_status' = IF InterruptTarget(pc) = "exit"
                      THEN ExitCode("KeyboardInterrupt") ELSE exit_status
    /\ correct_answer' = <<>>
    /\ user_answer' = <<>>
    /\ is_correct' = FALSE
    /\ UNCHANGED <<file, vocabulary_pairs, direction, score, total_questions,
                   session_stats, entry, posed, last_prompt, final_results>>

\* except KeyboardInterrupt: print(...)
HandleInterrupt ==
    /\ pc = "except"
    /\ pc' = "finally"
    /\ UNCHANGED <<file, vocabulary_pairs, correct_answer, direction,
                   user_answer, is_correct, score, total_questions,
                   session_stats, entry, posed, last_prompt, final_results,
                   pending, exit_status>>

\* finally: self.display_final_results(), then run() and main() are left
DisplayFinalResults ==
    /\ pc = "finally"
    /\ final_results' = final_results + 1
    /\ pc' = "exit"
    /\ exit_status' = ExitCode(pending)
    /\ correct_answer' = <<>>
    /\ user_answer' = <<>>
    /\ is_correct' = FALSE
    /\ UNCHANGED <<file, vocabulary_pairs, direction, score, total_questions,
                   session_stats, entry, posed, last_prompt, pending>>

Next ==
    \/ Initialize
    \/ DisplayWelcome
    \/ GenerateQuestion
    \/ ReadAnswer
    \/ CountTotal
    \/ CountDirection
    \/ CheckAnswer
    \/ CountScore
    \/ CountCorrect
    \/ CountDirectionCorrect
    \/ CountIncorrect
    \/ ShowScore
    \/ CadenceCheck
    \/ ContinueInput
    \/ EndOfInput
    \/ Interrupt
    \/ HandleInterrupt
    \/ DisplayFinalResults

Spec == Init /\ [][Next]_vars

(***************************************************************************)
(* The loader on every small file                                          *)
(***************************************************************************)
Strings(alphabet, n) == UNION {[1..k -> alphabet] : k \in 0..n}

FileAlphabet == {"a", " ", "|", "#", "\n"}

InitLoad ==
    /\ file \in [status : {"ok"}, content : Strings(FileAlphabet, MaxFile)]
    /\ vocabulary_pairs = <<>>
    /\ pc = "initialize"
    /\ correct_answer = <<>>
    /\ direction = "french_to_dutch"
    /\ user_answer = <<>>
    /\ is_correct = FALSE
    /\ score = 0
    /\ total_questions = 0
    /\ session_stats = ZeroStats
    /\ entry = [total_questions |-> 0, score |-> 0, session_stats |-> ZeroStats]
    /\ posed = FALSE
    /\ last_prompt = -1
    /\ final_results = 0
    /\ pending = "none"
    /\ exit_status = -1

SpecLoad == InitLoad /\ [][Initialize]_vars

(***************************************************************************)
(* The matcher on every small canonical answer                             *)
(***************************************************************************)
MatchAlphabet == {"a", "A", " ", "-", ",", "/"}

DePuberCanonical ==
    <<"d","e"," ","p","u","b","e","r"," ",
      "(","1","4","-","1","8"," ","j","a","a","r",")">>
DePuber == <<"d","e"," ","p","u","b","e","r">>
DePuberCapital == <<"D","e"," ","P","u","b","e","r">>
DePuberSpaced ==
    <<"d","e"," ","p","u","b","e","r"," ",
      "1","4"," ","1","8"," ","j","a","a","r">>
WrongAnswer == <<"w","r","o","n","g"," ","a","n","s","w","e","r">>
LEcoleCanonical == <<"l","'","e","c","o","l","e">>
LEcoleSpaced == <<"l"," ","e","c","o","l","e">>
LEcoleJoined == <<"l","e","c","o","l","e">>

TestCanonicals == {DePuberCanonical, LEcoleCanonical}
TestAnswers == {DePuber, DePuberCapital, DePuberSpaced, WrongAnswer,
                LEcoleSpaced, LEcoleJoined}

Canonicals == Strings(MatchAlphabet, MaxLen) \cup TestCanonicals

\* the alternatives of a canonical answer as written: between ',' and '/'
RawAlternatives(correct) ==
    LET parts == split(correct, ",")
    IN  Flatten([i \in 1..Len(parts) |-> split(parts[i], "/")])

\* positions of a stripped punctuation character between two non-space ones
InteriorPunctuation(alt) ==
    {i \in 2..(Len(alt) - 1) : /\ alt[i] \in Punctuation
                               /\ alt[i-1] \notin Whitespace
                               /\ alt[i+1] \notin Whitespace}

ReplaceAt(s, i) == [s EXCEPT ![i] = " "]
DeleteAt(s, i) == SubSeq(s, 1, i - 1) \o SubSeq(s, i + 1, Len(s))

\* the answers a user is taken to type for a canonical answer
Attempts(correct) ==
    LET alts == Range(RawAlternatives(correct))
        spaced == {ReplaceAt(alt[1], alt[2]) :
                     alt \in {x \in alts \X (1..Len(correct)) :
                                x[2] \in InteriorPunctuation(x[1])}}
        joined == {DeleteAt(alt[1], alt[2]) :
                     alt \in {x \in alts \X (1..Len(correct)) :
                                x[2] \in InteriorPunctuation(x[1])}}
    IN  {correct, normalize_answer(correct)} \cup Range(all_possible(correct))
          \cup spaced \cup joined \cup TestAnswers

InitMatch ==
    /\ correct_answer \in Canonicals
    /\ user_answer \in Attempts(correct_answer)
    /\ pc = "match"
    /\ file = [status |-> "ok", content |-> <<>>]
    /\ vocabulary_pairs = <<>>
    /\ direction = "french_to_dutch"
    /\ is_correct = FALSE
    /\ score = 0
    /\ total_questions = 0
    /\ session_stats = ZeroStats
    /\ entry = [total_questions |-> 0, score |-> 0, session_stats |-> ZeroStats]
    /\ posed = FALSE
    /\ last_prompt = -1
    /\ final_results = 0
    /\ pending = "none"
    /\ exit_status = -1

\* parser.check_answer(user_answer, correct_answer), as test_parser calls it
Match ==
    /\ pc = "match"
    /\ is_correct' = check_answer(user_answer, correct_answer)
    /\ pc' = "matched"
    /\ UNCHANGED <<file, vocabulary_pairs, correct_answer, direction,
                   user_answer, score, total_questions, session_stats, entry,
                   posed, last_prompt, final_results, pending, exit_status>>

SpecMatch == InitMatch /\ [][Match]_vars

(***************************************************************************)
(* Properties                                                              *)
(***************************************************************************)
\* the positions of run() at which the counters are read for display:
\* the question number, the running score, the final summary
CounterReaders == {"ask_question", "show_score", "finally"}

Conservation ==
    /\ session_stats.correct + session_stats.incorrect = total_questions
    /\ session_stats.french_to_dutch.total
         + session_stats.dutch_to_french.total = total_questions
    /\ session_stats.french_to_dutch.correct
         <= session_stats.french_to_dutch.total
    /\ session_stats.dutch_to_french.correct
         <= session_stats.dutch_to_french.total

\* C1: whenever the counters are read (question number, running score, final
\* summary, also after an interrupt), correct + incorrect = total, the two
\* per-direction totals sum to total, and each per-direction correct is at
\* most its total: no partial update of a graded attempt is observable.
C1_CounterConservation == pc \in CounterReaders => Conservation

\* C2: check_answer(s, s) and check_answer(normalize_answer(s), s) are true
\* for every string s.
C2_MatchReflexive ==
    (pc = "matched" /\ user_answer \in {correct_answer,
                                         normalize_answer(correct_answer)})
        => is_correct

\* C3: every candidate that check_answer builds from the canonical answer is
\* itself accepted as a user answer.
C3_CandidatesAccepted ==
    (pc = "matched" /\ user_answer \in Range(all_possible(correct_answer)))
        => is_correct

C3_Witness ==
    /\ pc = "matched"
    /\ Len(all_possible(correct_answer)) >= 2
    /\ user_answer \in Range(all_possible(correct_answer))
    /\ user_answer # <<>>
    /\ user_answer # correct_answer
    /\ is_correct

\* the user answer is an alternative of the canonical answer with one interior
\* punctuation character replaced by a space / left out
IsSpacedAlternative(user, correct) ==
    \E alt \in Range(RawAlternatives(correct)) :
        \E i \in InteriorPunctuation(alt) : user = ReplaceAt(alt, i)

IsJoinedAlternative(user, correct) ==
    \E alt \in Range(RawAlternatives(correct)) :
        \E i \in InteriorPunctuation(alt) : user = DeleteAt(alt, i)

\* C4: an answer that has a single space where an alternative of the canonical
\* answer has a stripped punctuation character between two non-space
\* characters is accepted ("de puber 14 18 jaar", "l ecole").
C4_SpaceForPunctuation ==
    pc = "matched" =>
        /\ IsSpacedAlternative(user_answer, correct_answer) => is_correct
        /\ (correct_answer = DePuberCanonical /\ user_answer = DePuberSpaced)
              => is_correct
        /\ (correct_answer = LEcoleCanonical /\ user_answer = LEcoleSpaced)
              => is_correct

\* C4 as amended: an answer that leaves out (rather than replaces by a space)
\* such a punctuation character has the normalized form of the alternative
\* itself and gets the verdict of the alternative typed verbatim; "lecole" is
\* accepted for "l'ecole", "l ecole" and "de puber 14 18 jaar" are rejected.
C4_PunctuationLeftOut ==
    pc = "matched" =>
        /\ \A alt \in Range(RawAlternatives(correct_answer)) :
             \A i \in InteriorPunctuation(alt) :
                user_answer = DeleteAt(alt, i) =>
                    /\ normalize_answer(user_answer) = normalize_answer(alt)
                    /\ is_correct = check_answer(alt, correct_answer)
        /\ (correct_answer = LEcoleCanonical /\ user_answer = LEcoleJoined)
              => is_correct
        /\ (correct_answer = LEcoleCanonical /\ user_answer = LEcoleSpaced)
              => ~is_correct
        /\ (correct_answer = DePuberCanonical /\ user_answer = DePuberSpaced)
              => ~is_correct

C4_Witness ==
    /\ pc = "matched"
    /\ IsJoinedAlternative(user_answer, correct_answer)
    /\ correct_answer \notin TestCanonicals
    /\ is_correct

\* the counters of the session
CounterValues == <<total_questions, score, session_stats>>

\* the input is empty or one of the commands
IsEmptyOrCommand(answer) ==
    \/ answer = <<>>
    \/ lower(answer) \in {<<"s","t","a","t","s">>,
                          <<"s","t","a","t","i","s","t","i","c","s">>,
                          <<"s">>, <<"q","u","i","t">>, <<"e","x","i","t">>,
                          <<"q">>}

GradedEffect ==
    /\ total_questions = entry.total_questions + 1
    /\ session_stats[direction].total = entry.session_stats[direction].total + 1
    /\ \A d \in Directions \ {direction} :
          session_stats[d] = entry.session_stats[d]
    /\ \/ /\ session_stats.correct = entry.session_stats.correct + 1
          /\ session_stats.incorrect = entry.session_stats.incorrect
          /\ score = entry.score + 1
          /\ session_stats[direction].correct =
                entry.session_stats[direction].correct + 1
       \/ /\ session_stats.correct = entry.session_stats.correct
          /\ session_stats.incorrect = entry.session_stats.incorrect + 1
          /\ score = entry.score
          /\ session_stats[direction].correct =
                entry.session_stats[direction].correct

NoDecrease ==
    /\ total_questions' >= total_questions
    /\ score' >= score
    /\ session_stats'.correct >= session_stats.correct
    /\ session_stats'.incorrect >= session_stats.incorrect
    /\ \A d \in Directions :
          /\ session_stats'[d].total >= session_stats[d].total
          /\ session_stats'[d].correct >= session_stats[d].correct

\* C5: when ask_question returns, an empty input or a stats or quit command has
\* left every counter as it was on entry, and any other input has added one to
\* total, one to the direction's total and one to exactly one of correct and
\* incorrect; no step of a session decreases a counter.
C5_AskQuestionEffect ==
    /\ [](pc = "cadence" =>
            IF IsEmptyOrCommand(user_answer)
            THEN Counters = entry
            ELSE GradedEffect)
    /\ [][/\ NoDecrease
          /\ (pc = "input" /\ pc' \in {"cadence", "finally"})
                => CounterValues' = CounterValues]_vars

C5_Witness ==
    /\ pc = "cadence"
    /\ ~IsEmptyOrCommand(user_answer)
    /\ ~is_correct
    /\ session_stats.incorrect = 2
    /\ session_stats.correct = 1

\* the vocabulary was loaded: the session has started
Started == pc # "initialize" /\ vocabulary_pairs # <<>>

\* C6: a started session that has terminated (quit, "no" at the continue
\* prompt, or an interrupt in any phase) has executed the final-results
\* display exactly once, and nothing is asked after the display.
C6_FinalResultsOnce ==
    /\ (pc = "exit" /\ Started) => final_results = 1
    /\ final_results > 0 => pc = "exit"

InitializationFailed == ~load_vocabulary(file).ok

\* C7: the exit status is non-zero exactly when initialization failed (and
\* then no question was posed); a session ended by quit or interrupt exits
\* with status 0.
C7_ExitStatus ==
    pc = "exit" =>
        /\ (exit_status # 0) <=> InitializationFailed
        /\ InitializationFailed => ~posed
        /\ (Started /\ pending # "EOFError") => exit_status = 0

\* C10: each showing of "Continue practicing?" follows at least one graded
\* attempt made since the previous showing.
C10_PromptOncePerFive ==
    [][(pc = "cadence" /\ pc' = "continue_input")
          => total_questions > last_prompt]_vars

\* C9: for canonical "de puber (14-18 jaar)" the answers "de puber" and
\* "De Puber" are accepted and an unrelated answer is rejected.
C9_HintLeftOut ==
    (pc = "matched" /\ correct_answer = DePuberCanonical) =>
        /\ user_answer \in {DePuber, DePuberCapital} => is_correct
        /\ user_answer = WrongAnswer => ~is_correct

(***************************************************************************)
(* The loader's result stated on the file content                          *)
(***************************************************************************)
RECURSIVE TrimLeft(_)
TrimLeft(s) ==
    IF s # <<>> /\ Head(s) \in Whitespace THEN TrimLeft(Tail(s)) ELSE s

RECURSIVE TrimRight(_)
TrimRight(s) ==
    IF s # <<>> /\ s[Len(s)] \in Whitespace
    THEN TrimRight(SubSeq(s, 1, Len(s) - 1)) ELSE s

Trim(s) == TrimRight(TrimLeft(s))

\* the positions at which a line of the content starts
LineStarts(content) ==
    {a \in 1..Len(content) : a = 1 \/ content[a-1] = "\n"}

\* the line that starts at position a, without its terminator
LineAt(content, a) ==
    LET ends == {e \in a..Len(content) : content[e] = "\n"}
    IN  IF ends = {} THEN SubSeq(content, a, Len(content))
        ELSE SubSeq(content, a, Min(ends) - 1)

FileLines(content) ==
    LET starts == LineStarts(content)
    IN  [k \in 1..Cardinality(starts) |->
            LineAt(content, CHOOSE a \in starts :
                       Cardinality({b \in starts : b < a}) = k - 1)]

FirstPipe(t) ==
    CHOOSE i \in 1..Len(t) : t[i] = "|" /\ \A j \in 1..(i-1) : t[j] # "|"

PairOf(line) ==
    LET t == Trim(line)
        i == FirstPipe(t)
    IN  <<Trim(SubSeq(t, 1, i - 1)), Trim(SubSeq(t, i + 1, Len(t)))>>

IsDataLine(line) ==
    LET t == Trim(line)
    IN  /\ t # <<>>
        /\ t[1] # "#"
        /\ \E i \in 1..Len(t) : t[i] = "|"
        /\ PairOf(line)[1] # <<>>
        /\ PairOf(line)[2] # <<>>

ExpectedPairs(content) ==
    LET data == SelectSeq(FileLines(content), IsDataLine)
    IN  [k \in 1..Len(data) |-> PairOf(data[k])]

\* C8: the loaded pairs are, in file order and with duplicates, the trimmed
\* text before and after the first '|' of the lines that are non-empty, no
\* comment, contain a '|' and have two non-empty sides; both sides of every
\* stored pair are non-empty.
C8_LoaderPreservation ==
    pc # "initialize" =>
        /\ vocabulary_pairs = ExpectedPairs(file.content)
        /\ \A k \in 1..Len(vocabulary_pairs) :
              vocabulary_pairs[k][1] # <<>> /\ vocabulary_pairs[k][2] # <<>>

C8_Witness ==
    /\ pc # "initialize"
    /\ Len(vocabulary_pairs) = 2
    /\ Contains(vocabulary_pairs[2][2], "|")

====
